---- MODULE Spec2Model ----
(***************************************************************************)
(* A model of the collection toolkit of src/unnamed/part_000 (namespace ts: *)
(* relativeComplement, deduplicate, sameMap, sameFlatMap, spanMap, the lazy *)
(* iterator combinators, insertSorted, append, combine, addRange) and of    *)
(* the mirroring script src/index.ts.                                       *)
(*                                                                          *)
(* JavaScript values are encoded as integers: numbers are themselves,       *)
(* `undefined` is the integer `undefined` below (outside every range of     *)
(* numbers the model uses), and an array is a reference r >= 1 into `heap`  *)
(* (heap[r] is the array's contents), so that `===` on arrays is equality   *)
(* of references and an in-place push is an update of heap[r].              *)
(*                                                                          *)
(* Each group of operations has its own specification (SpecRC, ...); the    *)
(* variables of the other groups stay at their idle values.                 *)
(***************************************************************************)
EXTENDS Integers, Sequences, FiniteSets, TLC

VARIABLES
    heap,       \* the arrays allocated so far: heap[r] is the contents of reference r
    \* relativeComplement(arrayA, arrayB, comparer)
    arrayA,     \* reference of arrayA, or undefined
    arrayB,     \* reference of arrayB, or undefined
    offsetA,    \* cursor into arrayA
    offsetB,    \* cursor into arrayB
    startA,     \* value of offsetA when loopA was entered
    result,     \* reference of the result array being built, or undefined
    rcReturn,   \* the returned reference (meaningful when rcPc = "returned")
    rcPc,       \* "entry", "loopB", "loopA", "returned", "failed", "idle"
    rcCompares, \* how many times the comparer was called
    \* deduplicate(array, equalityComparer, comparer?)
    dedupArray,     \* the caller's array
    dedupArg,       \* the argument of the latest call
    dedupOut,       \* the array returned by the latest call
    dedupCalls,     \* number of calls made: the second call is given dedupOut
    dedupComparer,  \* TRUE when the calls pass a comparer (relational path)
    \* sameMap(array, f)
    smArray,    \* reference of the array, or undefined
    smF,        \* the callback: smF[i + 1] is what f(array[i], i) returns
    smOrig,     \* the contents of the array when sameMap was called
    smCalls,    \* the invocations of f so far, each <<element, index>>
    smReturn,   \* the returned reference (meaningful when smPc = "returned")
    smPc,       \* "ready", "returned", "idle"
    \* spanMap(array, keyfn, mapfn)
    spArray,    \* reference of the array, or undefined
    spKeyfn,    \* the key callback: spKeyfn[i + 1] is what keyfn(array[i], i) returns
    spMapfn,    \* the reducer: spMapfn[key] is undefined, 0, or 1 for "a truthy value"
    spCalls,    \* the invocations of mapfn, each [chunk, key, start, end]
    spReturn,   \* the returned reference, or undefined
    spPc,       \* "ready", "returned", "idle"
    \* the iterator combinators: mapIterator, mapDefinedIterator,
    \* flatMapIterator, zipToIterator
    itKind,     \* the combinator called: "map", "mapDefined", "flatMap", "zip", "none"
    itPc,       \* "new" (not yet called), "built", "failed" (assertion), "idle"
    srcItems,   \* the elements of the upstream source `iter` (for zip: arrayA)
    srcPos,     \* how many elements the upstream source has handed out
    srcNexts,   \* how many times iter.next() was called
    itFn,       \* the callback: itFn[p] is its result on the p-th source element
    fnCalls,    \* how many times the callback was invoked
    curItems,   \* flatMapIterator: the elements of currentIter
    curPos,     \* flatMapIterator: how many elements currentIter has handed out
    itIsEmpty,  \* flatMapIterator returned the shared emptyIterator
    zipB,       \* zipToIterator: arrayB
    zipI,       \* zipToIterator: the position i
    itOut,      \* the values the result's next() has returned with done = false
    itNexts,    \* how many times next() was called on the result
    itDone,     \* how many of those calls returned done = true
    \* insertSorted(array, insert, compare)
    isArray,    \* reference of the sorted array
    isInsert,   \* the element to insert
    isOrig,     \* the contents of the array when insertSorted was called
    isPc,       \* "ready", "returned", "idle"
    \* append(to, value)
    apTo,       \* the caller's array: a reference, or undefined
    apValue,    \* the value argument of the latest call
    apReturn,   \* what the latest call returned
    apCalls,    \* number of calls made
    \* combine(xs, ys)
    cbXs,      \* the first operand: [kind, val], kind "absent", "single" or "array"
    cbYs,      \* the second operand, likewise
    cbHeap0,   \* the heap when combine was called
    cbReturn,  \* what combine returned, as an operand
    cbPc,      \* "ready", "returned", "idle"
    \* addRange(to, from, start, end)
    arTo,      \* the destination: a reference, or undefined
    arFrom,    \* the source: a reference, or undefined
    arStart,   \* the start argument: an offset, or undefined
    arEnd,     \* the end argument: an offset, or undefined
    arHeap0,   \* the heap when addRange was called
    arReturn,  \* the returned reference, or undefined
    arPc,      \* "ready", "returned", "idle"
    \* singleIterator(value) and the shared emptyIterator
    siValue,    \* singleIterator: the value argument
    siDone,     \* singleIterator: the closure's variable done
    siResults,  \* singleIterator: the results of next(), each [done, value]
    emResults,  \* emptyIterator: the results of next(), each [site, done, value]
    sePc,       \* "new" (singleIterator not yet called), "built", "idle"
    \* sameFlatMap(array, mapfn)
    sfArray,   \* reference of the array, or undefined
    sfMapfn,   \* the callback: sfMapfn[i + 1] is what mapfn(array[i], i) returns, [kind, val]
    sfHeap0,   \* the heap when sameFlatMap was called
    sfReturn,  \* the returned reference, or undefined
    sfPc,      \* "ready", "returned", "idle"
    \* the mirroring script, src/index.ts
    hasGit,      \* shell.which('git') finds git
    files,       \* the file system: files[path] is [exists, data]
    timerDue,    \* when the pending setTimeout callback is due (ms), or undefined
    now,         \* the time (ms since the script started)
    mirrorRuns,  \* how many times goMirror has run
    exitCode,    \* the exit code of shell.exit, or undefined
    mirrorPc     \* "start", "waiting" (a timer is pending), "finished" (nothing pending), "exited", "idle"

rcVars == <<arrayA, arrayB, offsetA, offsetB, startA, result, rcReturn, rcPc,
            rcCompares>>
dedupVars == <<dedupArray, dedupArg, dedupOut, dedupCalls, dedupComparer>>

smVars == <<smArray, smF, smOrig, smCalls, smReturn, smPc>>
spVars == <<spArray, spKeyfn, spMapfn, spCalls, spReturn, spPc>>
itVars == <<itKind, itPc, srcItems, srcPos, srcNexts, itFn, fnCalls, curItems,
            curPos, itIsEmpty, zipB, zipI, itOut, itNexts, itDone>>
isVars == <<isArray, isInsert, isOrig, isPc>>
apVars == <<apTo, apValue, apReturn, apCalls>>
cbVars == <<cbXs, cbYs, cbHeap0, cbReturn, cbPc>>
arVars == <<arTo, arFrom, arStart, arEnd, arHeap0, arReturn, arPc>>
seVars == <<siValue, siDone, siResults, emResults, sePc>>
sfVars == <<sfArray, sfMapfn, sfHeap0, sfReturn, sfPc>>
mirrorVars == <<hasGit, files, timerDue, now, mirrorRuns, exitCode, mirrorPc>>

vars == <<heap, rcVars, dedupVars, smVars, spVars, itVars, isVars, apVars, cbVars, arVars, seVars, sfVars, mirrorVars>>

\* What the operations of one group leave alone: the other groups' variables.
rcFrame == <<dedupVars, smVars, spVars, itVars, isVars, apVars, cbVars, arVars, seVars, sfVars, mirrorVars>>
dedupFrame == <<heap, rcVars, smVars, spVars, itVars, isVars, apVars, cbVars, arVars, seVars, sfVars, mirrorVars>>
smFrame == <<rcVars, dedupVars, spVars, itVars, isVars, apVars, cbVars, arVars, seVars, sfVars, mirrorVars>>
spFrame == <<rcVars, dedupVars, smVars, itVars, isVars, apVars, cbVars, arVars, seVars, sfVars, mirrorVars>>
itFrame == <<heap, rcVars, dedupVars, smVars, spVars, isVars, apVars, cbVars, arVars, seVars, sfVars, mirrorVars>>
isFrame == <<rcVars, dedupVars, smVars, spVars, itVars, apVars, cbVars, arVars, seVars, sfVars, mirrorVars>>
apFrame == <<rcVars, dedupVars, smVars, spVars, itVars, isVars, cbVars, arVars, seVars, sfVars, mirrorVars>>
cbFrame == <<rcVars, dedupVars, smVars, spVars, itVars, isVars, apVars, arVars, seVars, sfVars, mirrorVars>>
arFrame == <<rcVars, dedupVars, smVars, spVars, itVars, isVars, apVars, cbVars, seVars, sfVars, mirrorVars>>
seFrame == <<heap, rcVars, dedupVars, smVars, spVars, itVars, isVars, apVars, cbVars, arVars, sfVars, mirrorVars>>
sfFrame == <<rcVars, dedupVars, smVars, spVars, itVars, isVars, apVars, cbVars, arVars, seVars, mirrorVars>>
mirrorFrame == <<heap, rcVars, dedupVars, smVars, spVars, itVars, isVars, apVars, cbVars, arVars, seVars, sfVars>>

----------------------------------------------------------------------------
(* Encoding of values *)

undefined == -99

\* The other falsy values besides undefined and the number 0: null, false
\* and the empty string (all of them defined values).
jsNull == -98
jsFalse == -97
emptyString == -96

LessThan == -1
EqualTo == 0
GreaterThan == 1

\* compareValues: the three-way ordering predicate on numbers.
compareValues(a, b) ==
    IF a = b THEN EqualTo ELSE IF a < b THEN LessThan ELSE GreaterThan

\* equateValues: a === b.
equateValues(a, b) == a = b

\* All sequences over S of length at most n.
SeqsUpTo(S, n) == UNION {[1..k -> S] : k \in 0..n}

\* array.slice(from, to) with 0-based from (inclusive) and to (exclusive).
Slice(s, from, to) == [k \in 1..(to - from) |-> s[from + k]]

\* arrayIsSorted(array, comparer): no adjacent pair compares GreaterThan.
arrayIsSorted(s) ==
    \A k \in 1..(Len(s) - 1) : compareValues(s[k], s[k + 1]) # GreaterThan

\* Allocation of a new array with the given contents: its reference.
NewRef(h) == Len(h) + 1

----------------------------------------------------------------------------
(* relativeComplement, lines 852-888, one action per loop iteration.       *)
(* offsetA and offsetB are the 0-based cursors of the source.              *)

RCMaxLen == 3
RCMaxVal == 2

RCValues == 1..RCMaxVal

RCIdle ==
    /\ arrayA = undefined /\ arrayB = undefined
    /\ offsetA = 0 /\ offsetB = 0 /\ startA = 0
    /\ result = undefined /\ rcReturn = undefined
    /\ rcPc = "idle" /\ rcCompares = 0

\* The caller's arguments: each array is absent or any sequence (sorted or not).
RCInit ==
    \E a, b \in SeqsUpTo(RCValues, RCMaxLen) : \E ua, ub \in BOOLEAN :
        /\ (ua => a = <<>>) /\ (ub => b = <<>>)
        /\ heap = <<a, b>>
        /\ arrayA = IF ua THEN undefined ELSE 1
        /\ arrayB = IF ub THEN undefined ELSE 2
        /\ offsetA = 0 /\ offsetB = 0 /\ startA = 0
        /\ result = undefined /\ rcReturn = undefined
        /\ rcPc = "entry" /\ rcCompares = 0

\* Line 853: the early return of arrayB itself; line 854: const result = [].
RCEnterReturnsA ==
    /\ rcPc = "entry"
    /\ IF \/ arrayB = undefined \/ arrayA = undefined
          \/ Len(heap[arrayB]) = 0 \/ Len(heap[arrayA]) = 0
       THEN /\ rcReturn' = arrayA
            /\ rcPc' = "returned"
            /\ UNCHANGED <<heap, result>>
       ELSE /\ result' = NewRef(heap)
            /\ heap' = Append(heap, <<>>)
            /\ rcPc' = "loopB"
            /\ UNCHANGED rcReturn
    /\ UNCHANGED <<arrayA, arrayB, offsetA, offsetB, startA, rcCompares>>
    /\ UNCHANGED rcFrame

RCEnter ==
    /\ rcPc = "entry"
    /\ IF \/ arrayB = undefined \/ arrayA = undefined
          \/ Len(heap[arrayB]) = 0 \/ Len(heap[arrayA]) = 0
       THEN /\ rcReturn' = arrayB
            /\ rcPc' = "returned"
            /\ UNCHANGED <<heap, result>>
       ELSE /\ result' = NewRef(heap)
            /\ heap' = Append(heap, <<>>)
            /\ rcPc' = "loopB"
            /\ UNCHANGED rcReturn
    /\ UNCHANGED <<arrayA, arrayB, offsetA, offsetB, startA, rcCompares>>
    /\ UNCHANGED rcFrame

\* Lines 855-861: the head of loopB, with the sortedness assertion on arrayB.
RCLoopBBody ==
    IF offsetB >= Len(heap[arrayB])
    THEN /\ rcReturn' = result
         /\ rcPc' = "returned"
         /\ UNCHANGED <<startA, rcCompares>>
    ELSE /\ rcCompares' = IF offsetB > 0 THEN rcCompares + 1 ELSE rcCompares
         /\ IF /\ offsetB > 0
               /\ compareValues(heap[arrayB][offsetB + 1], heap[arrayB][offsetB]) < EqualTo
            THEN /\ rcPc' = "failed"
                 /\ UNCHANGED <<rcReturn, startA>>
            ELSE /\ startA' = offsetA
                 /\ rcPc' = "loopA"
                 /\ UNCHANGED rcReturn

RCLoopB ==
    /\ rcPc = "loopB"
    /\ RCLoopBBody
    /\ UNCHANGED <<heap, arrayA, arrayB, offsetA, offsetB, result>>
    /\ UNCHANGED rcFrame

\* Lines 861-885: one iteration of loopA.  When offsetA reaches the end of
\* arrayA the inner loop is left and loopB's increment runs (line 855).
RCLoopABodyEqualAdvancesA ==
    IF offsetA >= Len(heap[arrayA])
    THEN /\ offsetB' = offsetB + 1
         /\ rcPc' = "loopB"
         /\ UNCHANGED <<heap, offsetA, rcCompares>>
    ELSE IF /\ offsetA > startA
            /\ compareValues(heap[arrayA][offsetA + 1], heap[arrayA][offsetA]) < EqualTo
         THEN /\ rcPc' = "failed"
              /\ rcCompares' = rcCompares + 1
              /\ UNCHANGED <<heap, offsetA, offsetB>>
         ELSE LET c == compareValues(heap[arrayB][offsetB + 1], heap[arrayA][offsetA + 1]) IN
              /\ rcCompares' = IF offsetA > startA THEN rcCompares + 2 ELSE rcCompares + 1
              /\ IF c = LessThan
                 THEN /\ heap' = [heap EXCEPT ![result] = Append(@, heap[arrayB][offsetB + 1])]
                      /\ offsetB' = offsetB + 1
                      /\ rcPc' = "loopB"
                      /\ UNCHANGED offsetA
                 ELSE IF c = EqualTo
                 THEN /\ offsetB' = offsetB + 1
                      /\ offsetA' = offsetA + 1
                      /\ rcPc' = "loopB"
                      /\ UNCHANGED heap
                 ELSE /\ offsetA' = offsetA + 1
                      /\ rcPc' = "loopA"
                      /\ UNCHANGED <<heap, offsetB>>

RCLoopABody ==
    IF offsetA >= Len(heap[arrayA])
    THEN /\ offsetB' = offsetB + 1
         /\ rcPc' = "loopB"
         /\ UNCHANGED <<heap, offsetA, rcCompares>>
    ELSE IF /\ offsetA > startA
            /\ compareValues(heap[arrayA][offsetA + 1], heap[arrayA][offsetA]) < EqualTo
         THEN /\ rcPc' = "failed"
              /\ rcCompares' = rcCompares + 1
              /\ UNCHANGED <<heap, offsetA, offsetB>>
         ELSE LET c == compareValues(heap[arrayB][offsetB + 1], heap[arrayA][offsetA + 1]) IN
              /\ rcCompares' = IF offsetA > startA THEN rcCompares + 2 ELSE rcCompares + 1
              /\ IF c = LessThan
                 THEN /\ heap' = [heap EXCEPT ![result] = Append(@, heap[arrayB][offsetB + 1])]
                      /\ offsetB' = offsetB + 1
                      /\ rcPc' = "loopB"
                      /\ UNCHANGED offsetA
                 ELSE IF c = EqualTo
                 THEN /\ offsetB' = offsetB + 1
                      /\ rcPc' = "loopB"
                      /\ UNCHANGED <<heap, offsetA>>
                 ELSE /\ offsetA' = offsetA + 1
                      /\ rcPc' = "loopA"
                      /\ UNCHANGED <<heap, offsetB>>

RCLoopA ==
    /\ rcPc = "loopA"
    /\ RCLoopABody
    /\ UNCHANGED <<arrayA, arrayB, startA, result, rcReturn>>
    /\ UNCHANGED rcFrame


\* A sorted sequence without duplicates: strictly increasing under the comparer.
StrictlySorted(s) ==
    \A k \in 1..(Len(s) - 1) : compareValues(s[k], s[k + 1]) = LessThan

\* The elements of b that compare equal to no element of a, in b's order.
RECURSIVE ComplementOf(_, _)
ComplementOf(a, b) ==
    IF b = <<>> THEN <<>>
    ELSE LET rest == ComplementOf(a, Tail(b)) IN
         IF \E k \in 1..Len(a) : compareValues(Head(b), a[k]) = EqualTo
         THEN rest ELSE <<Head(b)>> \o rest

RCNonEmptyCall ==
    /\ arrayA # undefined /\ arrayB # undefined
    /\ Len(heap[arrayA]) > 0 /\ Len(heap[arrayB]) > 0

\* C1: for non-empty A and B, sorted and without duplicates, the call returns
\* exactly the elements of B that no element of A equals, in B's order,
\* the elements of B greater than every element of A included.
C1_ComplementExact ==
    (/\ rcPc = "returned" /\ RCNonEmptyCall
     /\ StrictlySorted(heap[arrayA]) /\ StrictlySorted(heap[arrayB]))
        => heap[rcReturn] = ComplementOf(heap[arrayA], heap[arrayB])

\* C13: for all non-empty A and B, when A or B is not sorted at some
\* adjacent pair the call fails its assertion: it never returns a result
\* for an unsorted input, wherever the unsorted pair lies.
C13_UnsortedNeverReturns ==
    (rcPc = "returned" /\ RCNonEmptyCall)
        => (arrayIsSorted(heap[arrayA]) /\ arrayIsSorted(heap[arrayB]))

\* The step of loopA that finds B's current element equal to A's.
RCEqualStep ==
    /\ rcPc = "loopA" /\ rcPc' # "failed"
    /\ offsetA < Len(heap[arrayA])
    /\ compareValues(heap[arrayB][offsetB + 1], heap[arrayA][offsetA + 1]) = EqualTo

\* C19: an element of B equal to the current element of A is dropped
\* without moving A's cursor (only B's moves, nothing is pushed), so for
\* sorted A and sorted B, duplicates in B included, no element of B that
\* equals an element of A is in the result; A's cursor never decreases,
\* and B's cursor moves exactly when an iteration of the outer loop ends,
\* by exactly one.
C19_DuplicatesMatched ==
    /\ []((/\ rcPc = "returned" /\ RCNonEmptyCall
           /\ arrayIsSorted(heap[arrayA]) /\ arrayIsSorted(heap[arrayB]))
            => \A k \in 1..Len(heap[rcReturn]) : \A j \in 1..Len(heap[arrayA]) :
                    compareValues(heap[rcReturn][k], heap[arrayA][j]) # EqualTo)
    /\ [][/\ offsetA' >= offsetA
          /\ RCEqualStep =>
                (offsetA' = offsetA /\ offsetB' = offsetB + 1 /\ heap' = heap)
          /\ IF rcPc = "loopA" /\ rcPc' = "loopB"
             THEN offsetB' = offsetB + 1
             ELSE offsetB' = offsetB]_vars

\* relativeComplement([2], [1, 2, 2]) returned [1]: both duplicates of 2
\* were matched against the one 2 of A.
C19_Witness ==
    /\ rcPc = "returned"
    /\ arrayA = 1 /\ arrayB = 2
    /\ heap[1] = <<2>> /\ heap[2] = <<1, 2, 2>>
    /\ heap[rcReturn] = <<1>>
    /\ offsetA = 0 /\ offsetB = 3

\* C21: when arrayA or arrayB is absent or empty the call returns arrayB
\* itself (the same reference, or undefined) and the comparer is never
\* called; every other call that returns gives a newly allocated array,
\* distinct from both inputs; and no step of any call changes the contents
\* of arrayA or arrayB.
C21_ResultAliasing ==
    /\ [](rcPc = "returned" =>
            IF RCNonEmptyCall
            THEN /\ rcReturn \notin {arrayA, arrayB, undefined}
                 /\ rcReturn \in DOMAIN heap /\ rcReturn > 2
            ELSE rcReturn = arrayB /\ rcCompares = 0 /\ Len(heap) = 2)
    /\ [][rcPc # "idle" => (heap'[1] = heap[1] /\ heap'[2] = heap[2])]_vars

\* relativeComplement([2], [1, 2]) returned a new array [1] after three
\* calls of the comparer, arrayA and arrayB as they were.
C21_Witness ==
    /\ rcPc = "returned"
    /\ arrayA = 1 /\ arrayB = 2
    /\ heap = <<<<2>>, <<1, 2>>, <<1>>>>
    /\ rcReturn = 3 /\ rcCompares = 3

\* relativeComplement([1], []) returned arrayB itself, the comparer never
\* called.
C21_WitnessEarlyReturn ==
    /\ rcPc = "returned"
    /\ arrayA = 1 /\ arrayB = 2
    /\ heap = <<<<1>>, <<>>>>
    /\ rcReturn = 2 /\ rcCompares = 0

----------------------------------------------------------------------------
(* deduplicate, lines 692-741 *)

DedupMaxLen == 11

DedupIdle ==
    /\ dedupArray = <<>> /\ dedupArg = <<>> /\ dedupOut = <<>>
    /\ dedupCalls = 0 /\ dedupComparer = FALSE

\* The inputs: every array of at most DedupMaxLen numbers whose element at
\* (1-based) position i is i or its mirror image DedupMaxLen + 1 - i.  These
\* are unsorted arrays with duplicates at every distance, and arrays of up to
\* DedupMaxLen distinct numbers.
DedupInputs ==
    UNION {{[i \in 1..n |-> IF m[i] THEN i ELSE DedupMaxLen + 1 - i] :
                m \in [1..n -> BOOLEAN]} : n \in 0..DedupMaxLen}

DedupInit ==
    /\ dedupArray \in DedupInputs
    /\ dedupArg = <<>> /\ dedupOut = <<>>
    /\ dedupCalls = 0 /\ dedupComparer = FALSE

\* contains(array, value, equalityComparer), lines 223-232.
contains(array, value) ==
    \E k \in 1..Len(array) : equateValues(array[k], value)

\* pushIfUnique(array, toAdd, equalityComparer), lines 976-984: the array after the call.
pushIfUnique(array, toAdd) ==
    IF contains(array, toAdd) THEN array ELSE Append(array, toAdd)

\* deduplicateEquality, lines 722-728: the loop over the items from position k.
RECURSIVE deduplicateEqualityFrom(_, _, _)
deduplicateEqualityFrom(array, k, res) ==
    IF k > Len(array) THEN res
    ELSE deduplicateEqualityFrom(array, k + 1, pushIfUnique(res, array[k]))

deduplicateEquality(array) == deduplicateEqualityFrom(array, 1, <<>>)

\* indicesOf(array), lines 696-698: the 0-based indices.
indicesOf(array) == [k \in 1..Len(array) |-> k - 1]

\* stableSortIndices(array, indices, comparer): the indices ordered by the
\* comparer on their elements, ties by the smaller index first.  x comes
\* before y when SortsBefore(array, x, y); an index's position is the number
\* of indices that come before it.
SortsBefore(array, x, y) ==
    LET c == compareValues(array[x + 1], array[y + 1]) IN
    c = LessThan \/ (c = EqualTo /\ x < y)

stableSortIndices(array, indices) ==
    LET S == {indices[k] : k \in 1..Len(indices)} IN
    [k \in 1..Cardinality(S) |->
        CHOOSE x \in S : Cardinality({y \in S : SortsBefore(array, y, x)}) = k - 1]

\* Number.prototype.toString of a non-negative integer: its decimal digits.
RECURSIVE NumberToString(_)
NumberToString(n) == IF n < 10 THEN <<n>> ELSE Append(NumberToString(n \div 10), n % 10)

\* s < t for strings of digits, compared code unit by code unit.
StringLess(s, t) ==
    \E k \in 1..(Len(s) + 1) :
        /\ k <= Len(t)
        /\ \A j \in 1..(k - 1) : s[j] = t[j]
        /\ (k = Len(s) + 1 \/ s[k] < t[k])

\* Array.prototype.sort() without a compare function, on distinct numbers:
\* the elements are ordered by their string forms.
DefaultSort(numbers) ==
    LET S == {numbers[k] : k \in 1..Len(numbers)} IN
    [k \in 1..Cardinality(S) |->
        CHOOSE x \in S :
            Cardinality({y \in S : StringLess(NumberToString(y), NumberToString(x))}) = k - 1]

\* deduplicateRelational, lines 706-715: the kept indices, walking the sorted
\* indices from (1-based) position i with `last` the latest kept element.
RECURSIVE keptIndicesFrom(_, _, _, _, _)
keptIndicesFrom(array, indices, i, last, deduplicated) ==
    IF i > Len(indices) THEN deduplicated
    ELSE LET index == indices[i]
             item == array[index + 1]
         IN IF ~equateValues(last, item)
            THEN keptIndicesFrom(array, indices, i + 1, item, Append(deduplicated, index))
            ELSE keptIndicesFrom(array, indices, i + 1, last, deduplicated)

\* deduplicateRelational, lines 700-720 (called with at least two elements).
deduplicateRelational(array) ==
    LET indices == stableSortIndices(array, indicesOf(array))
        kept == keptIndicesFrom(array, indices, 2, array[indices[1] + 1], <<indices[1]>>)
        deduplicated == DefaultSort(kept)
    IN [k \in 1..Len(deduplicated) |-> array[deduplicated[k] + 1]]

\* deduplicate, lines 736-741.
deduplicate(array, comparer) ==
    IF Len(array) = 0 THEN <<>>
    ELSE IF Len(array) = 1 THEN Slice(array, 0, Len(array))
    ELSE IF comparer THEN deduplicateRelational(array)
    ELSE deduplicateEquality(array)

\* A call of deduplicate: the first on the caller's array, the second on the
\* array the first returned, with the same comparers.
Deduplicate(comparer) ==
    /\ dedupCalls < 2
    /\ dedupCalls = 1 => comparer = dedupComparer
    /\ LET arg == IF dedupCalls = 0 THEN dedupArray ELSE dedupOut IN
        /\ dedupArg' = arg
        /\ dedupOut' = deduplicate(arg, comparer)
    /\ dedupComparer' = comparer
    /\ dedupCalls' = dedupCalls + 1
    /\ UNCHANGED dedupArray
    /\ UNCHANGED dedupFrame

DeduplicateEq == Deduplicate(FALSE)
DeduplicateRel == Deduplicate(TRUE)

\* C2: the relational path returns what the equality-only path returns on the
\* same array: the first occurrence of each class, in original-index order.
C2_RelationalMatchesEquality ==
    (dedupCalls >= 1 /\ dedupComparer) => dedupOut = deduplicateEquality(dedupArg)

\* C3: deduplicate is idempotent: deduplicating a deduplicated array returns
\* an array equal to it, element by element.
C3_Idempotent ==
    dedupCalls = 2 => dedupOut = dedupArg

----------------------------------------------------------------------------
(* sameMap, lines 336-352 *)

SMMaxLen == 3
SMMaxVal == 2

SMValues == 1..SMMaxVal

SMIdle ==
    /\ smArray = undefined /\ smF = <<>> /\ smOrig = <<>> /\ smCalls = <<>>
    /\ smReturn = undefined /\ smPc = "idle"

\* The caller's arguments: the array is absent or any sequence, and f returns
\* any value at each index (the identity included).
SMInit ==
    \E a \in SeqsUpTo(SMValues, SMMaxLen) : \E f \in [1..Len(a) -> SMValues] :
    \E absent \in BOOLEAN :
        /\ absent => a = <<>>
        /\ heap = IF absent THEN <<>> ELSE <<a>>
        /\ smArray = IF absent THEN undefined ELSE 1
        /\ smF = f
        /\ smOrig = a
        /\ smCalls = <<>>
        /\ smReturn = undefined
        /\ smPc = "ready"

\* Lines 344-346: the loop that maps the rest into the new array, from index i.
\* acc is [result |-> the new array so far, calls |-> the invocations so far].
RECURSIVE sameMapRestKeepsItems(_, _, _, _)
sameMapRestKeepsItems(array, f, i, acc) ==
    IF i >= Len(array) THEN acc
    ELSE sameMapRestKeepsItems(array, f, i + 1,
            [result |-> Append(acc.result, array[i + 1]),
             calls |-> Append(acc.calls, <<array[i + 1], i>>)])

RECURSIVE sameMapRest(_, _, _, _)
sameMapRest(array, f, i, acc) ==
    IF i >= Len(array) THEN acc
    ELSE sameMapRest(array, f, i + 1,
            [result |-> Append(acc.result, f[i + 1]),
             calls |-> Append(acc.calls, <<array[i + 1], i>>)])

\* Lines 338-349: the scanning loop from index i.  The outcome is
\* [changed, result, calls]: changed = FALSE means `return array` (line 351).
RECURSIVE sameMapScan(_, _, _, _)
sameMapScan(array, f, i, calls) ==
    IF i >= Len(array)
    THEN [changed |-> FALSE, result |-> <<>>, calls |-> calls]
    ELSE LET item == array[i + 1]
             mapped == f[i + 1]
             called == Append(calls, <<item, i>>)
         IN IF item # mapped
            THEN LET rest == sameMapRest(array, f, i + 1,
                                [result |-> Append(Slice(array, 0, i), mapped),
                                 calls |-> called])
                 IN [changed |-> TRUE, result |-> rest.result, calls |-> rest.calls]
            ELSE sameMapScan(array, f, i + 1, called)

\* sameMap(array, f): the whole call.
SameMap ==
    /\ smPc = "ready"
    /\ IF smArray = undefined
       THEN /\ smReturn' = smArray
            /\ UNCHANGED <<heap, smCalls>>
       ELSE LET run == sameMapScan(heap[smArray], smF, 0, <<>>) IN
            /\ smCalls' = run.calls
            /\ IF run.changed
               THEN /\ smReturn' = NewRef(heap)
                    /\ heap' = Append(heap, run.result)
               ELSE /\ smReturn' = smArray
                    /\ UNCHANGED heap
    /\ smPc' = "returned"
    /\ UNCHANGED <<smArray, smF, smOrig>>
    /\ UNCHANGED smFrame

\* f maps every element to itself.
SMIdentity == \A k \in 1..Len(smOrig) : smF[k] = smOrig[k]

\* C4: when f returns every element itself, sameMap returns the array itself;
\* when f changes an element, it returns a new array, distinct from the
\* argument, whose i-th element is f(xs[i], i); the argument is not modified
\* and f is invoked exactly once per element, in index order.
C4_SameMapReferenceLaw ==
    (smPc = "returned" /\ smArray # undefined) =>
        /\ heap[smArray] = smOrig
        /\ smCalls = [k \in 1..Len(smOrig) |-> <<smOrig[k], k - 1>>]
        /\ SMIdentity => smReturn = smArray
        /\ ~SMIdentity =>
            /\ smReturn # smArray
            /\ smReturn \in 1..Len(heap)
            /\ heap[smReturn] = [k \in 1..Len(smOrig) |-> smF[k]]

\* A call that kept a prefix and changed a later element, after which f
\* returned both changed and unchanged elements.
C4_Witness ==
    /\ smPc = "returned" /\ smArray # undefined
    /\ Len(smOrig) >= 3
    /\ smF[1] = smOrig[1] /\ smF[2] # smOrig[2] /\ smF[3] = smOrig[3]
    /\ smReturn # smArray

----------------------------------------------------------------------------
(* spanMap, lines 592-630 *)

SPMaxLen == 5
SPMaxKey == 2

SPKeys == 1..SPMaxKey

SPIdle ==
    /\ spArray = undefined /\ spKeyfn = <<>> /\ spMapfn = <<>> /\ spCalls = <<>>
    /\ spReturn = undefined /\ spPc = "idle"

\* The element at 0-based index i: the elements are told apart by position.
SPElement(i) == 100 + i

\* The caller's arguments: the array is absent or of any length up to
\* SPMaxLen, with any key per index, and the reducer returns undefined, 0 or a
\* truthy value per key.
SPInit ==
    \E n \in 0..SPMaxLen : \E keys \in [1..n -> SPKeys] :
    \E mapfn \in [SPKeys -> {undefined, 0, 1}] : \E absent \in BOOLEAN :
        /\ absent => n = 0
        /\ heap = IF absent THEN <<>> ELSE <<[k \in 1..n |-> SPElement(k - 1)]>>
        /\ spArray = IF absent THEN undefined ELSE 1
        /\ spKeyfn = keys
        /\ spMapfn = mapfn
        /\ spCalls = <<>>
        /\ spReturn = undefined
        /\ spPc = "ready"

\* if (v): undefined and the number 0 are falsy.
Truthy(v) == v \notin {undefined, 0, jsNull, jsFalse, emptyString}

\* What mapfn(chunk, key, start, end) returns: a falsy value, or a truthy
\* value that tells the run.
SPMapfnResult(mapfn, key, start, end) ==
    IF mapfn[key] = 1 THEN 10 * start + end ELSE mapfn[key]

\* Lines 602-613: the inner loop, on the loop state st.
RECURSIVE spanMapInner(_, _, _)
spanMapInner(array, keyfn, st) ==
    IF st.pos >= Len(array) THEN st
    ELSE LET key == keyfn[st.pos + 1] IN
         IF st.pos = 0
         THEN spanMapInner(array, keyfn,
                [st EXCEPT !.key = key, !.previousKey = key, !.pos = st.pos + 1])
         ELSE IF key # st.previousKey
         THEN [st EXCEPT !.key = key]
         ELSE spanMapInner(array, keyfn, [st EXCEPT !.key = key, !.pos = st.pos + 1])

\* Lines 615-622: the reducer is called on the chunk [start, pos).
spanMapEmit(array, mapfn, st) ==
    IF st.start < st.pos
    THEN LET v == SPMapfnResult(mapfn, st.previousKey, st.start, st.pos) IN
         [st EXCEPT
            !.calls = Append(@, [chunk |-> Slice(array, st.start, st.pos),
                                 key |-> st.previousKey,
                                 start |-> st.start, end |-> st.pos]),
            !.result = IF Truthy(v) THEN Append(@, v) ELSE @,
            !.start = st.pos]
    ELSE st

\* Lines 624-625: the end of one iteration of the outer loop.
spanMapStepKeepsKey(st) == [st EXCEPT !.pos = st.pos + 1]

spanMapStep(st) == [st EXCEPT !.previousKey = st.key, !.pos = st.pos + 1]

\* Lines 601-626: the outer loop.
RECURSIVE spanMapOuter(_, _, _, _)
spanMapOuter(array, keyfn, mapfn, st) ==
    IF st.start >= Len(array) THEN st
    ELSE spanMapOuter(array, keyfn, mapfn,
            spanMapStep(spanMapEmit(array, mapfn, spanMapInner(array, keyfn, st))))

\* spanMap(array, keyfn, mapfn): the whole call.
SpanMap ==
    /\ spPc = "ready"
    /\ IF spArray = undefined
       THEN UNCHANGED <<heap, spCalls, spReturn>>
       ELSE LET run == spanMapOuter(heap[spArray], spKeyfn, spMapfn,
                            [start |-> 0, pos |-> 0, previousKey |-> undefined,
                             key |-> undefined, calls |-> <<>>, result |-> <<>>])
            IN /\ spCalls' = run.calls
               /\ spReturn' = NewRef(heap)
               /\ heap' = Append(heap, run.result)
    /\ spPc' = "returned"
    /\ UNCHANGED <<spArray, spKeyfn, spMapfn>>
    /\ UNCHANGED spFrame

\* The results of the truthy reducer outcomes of the calls from the j-th on.
RECURSIVE SPTruthyResults(_, _, _)
SPTruthyResults(mapfn, calls, j) ==
    IF j > Len(calls) THEN <<>>
    ELSE LET c == calls[j]
             v == SPMapfnResult(mapfn, c.key, c.start, c.end)
         IN (IF Truthy(v) THEN <<v>> ELSE <<>>) \o SPTruthyResults(mapfn, calls, j + 1)

\* C5: the reducer is invoked once per maximal contiguous run of equal keys,
\* in order, with chunk = array[start..end), every element of the chunk
\* having the key passed, adjacent runs having different keys, and the
\* intervals tiling [0, length); the truthy results, and only they, are the
\* output, in run order.
C5_SpanMapRuns ==
    (spPc = "returned" /\ spArray # undefined) =>
        LET n == Len(heap[spArray]) IN
        /\ \A j \in 1..Len(spCalls) :
            LET c == spCalls[j] IN
            /\ c.start < c.end
            /\ c.start = (IF j = 1 THEN 0 ELSE spCalls[j - 1].end)
            /\ c.chunk = [k \in 1..(c.end - c.start) |-> heap[spArray][c.start + k]]
            /\ \A i \in c.start..(c.end - 1) : spKeyfn[i + 1] = c.key
            /\ j > 1 => spCalls[j - 1].key # c.key
        /\ (IF spCalls = <<>> THEN 0 ELSE spCalls[Len(spCalls)].end) = n
        /\ heap[spReturn] = SPTruthyResults(spMapfn, spCalls, 1)

\* The keys [1,1,2,2,1] gave the runs [0,2), [2,4), [4,5), and the reducer
\* dropped the runs of key 2.
C5_Witness ==
    /\ spPc = "returned"
    /\ spKeyfn = <<1, 1, 2, 2, 1>>
    /\ Len(spCalls) = 3
    /\ spCalls[1].start = 0 /\ spCalls[1].end = 2
    /\ spCalls[2].start = 2 /\ spCalls[2].end = 4
    /\ spCalls[3].start = 4 /\ spCalls[3].end = 5
    /\ spMapfn[1] = 1 /\ spMapfn[2] = 0
    /\ Len(heap[spReturn]) = 2

----------------------------------------------------------------------------
(* The iterator combinators: zipToIterator (109-121), mapIterator (322-329), *)
(* flatMapIterator (416-442), mapDefinedIterator (500-515).                 *)
(* The upstream source is a cursor over srcItems: iter.next() hands out     *)
(* srcItems[srcPos + 1] and moves srcPos, or reports done at the end.       *)

ItMaxLen == 3
ItMaxSub == 2
ItMaxDone == 2

ItIdle ==
    /\ itKind = "none" /\ itPc = "idle"
    /\ srcItems = <<>> /\ srcPos = 0 /\ srcNexts = 0
    /\ itFn = <<>> /\ fnCalls = 0
    /\ curItems = <<>> /\ curPos = 0 /\ itIsEmpty = FALSE
    /\ zipB = <<>> /\ zipI = 0
    /\ itOut = <<>> /\ itNexts = 0 /\ itDone = 0

\* The p-th element of the source, and the p-th element of arrayB.
ItElement(p) == 100 + p
ItElementB(p) == 200 + p

\* What a map or mapDefined callback may return: no value, a falsy but
\* defined value (0, null, false, the empty string), or a truthy number.
ItScalarResults == {undefined, 0, jsNull, jsFalse, emptyString, 7}

\* What a flatMap callback may return: undefined, an array, or an iterator,
\* of any length up to ItMaxSub.
ItSubResults ==
    {[kind |-> "undefined", len |-> 0]}
    \cup [kind : {"array", "iterator"}, len : 0..ItMaxSub]

\* The elements of the sub-result of the p-th source element.
ItSubItems(p, res) == [j \in 1..res.len |-> 10 * p + j]

ItInit ==
    /\ itKind \in {"map", "mapDefined", "flatMap", "zip"}
    /\ itPc = "new"
    /\ \E n \in 0..ItMaxLen : srcItems = [p \in 1..n |-> ItElement(p)]
    /\ itFn \in CASE itKind \in {"map", "mapDefined"} -> [1..Len(srcItems) -> ItScalarResults]
                  [] itKind = "flatMap" -> [1..Len(srcItems) -> ItSubResults]
                  [] OTHER -> {<<>>}
    /\ \E m \in 0..ItMaxLen :
        /\ itKind # "zip" => m = 0
        /\ zipB = [p \in 1..m |-> ItElementB(p)]
    /\ srcPos = 0 /\ srcNexts = 0 /\ fnCalls = 0
    /\ curItems = <<>> /\ curPos = 0 /\ itIsEmpty = FALSE
    /\ zipI = 0
    /\ itOut = <<>> /\ itNexts = 0 /\ itDone = 0

\* The part of a next() call on the result that every combinator shares: the
\* call is counted and its outcome, [done, value], recorded.
ItReturn(res) ==
    /\ itNexts' = itNexts + 1
    /\ IF res.done
       THEN /\ itDone' = itDone + 1
            /\ UNCHANGED itOut
       ELSE /\ itOut' = Append(itOut, res.value)
            /\ UNCHANGED itDone

\* The caller advances the result; after done it may go on, ItMaxDone times in all.
ItMayAdvance(kind) == itPc = "built" /\ itKind = kind /\ itDone < ItMaxDone

\* zipToIterator(arrayA, arrayB), lines 110-112.
ZipToIterator ==
    /\ itPc = "new" /\ itKind = "zip"
    /\ itPc' = IF Len(srcItems) = Len(zipB) THEN "built" ELSE "failed"
    /\ zipI' = 0
    /\ UNCHANGED <<itKind, srcItems, srcPos, srcNexts, itFn, fnCalls, curItems,
                   curPos, itIsEmpty, zipB, itOut, itNexts, itDone>>
    /\ UNCHANGED itFrame

\* next() of zipToIterator, lines 113-119.
ZipNextRewinds ==
    /\ ItMayAdvance("zip")
    /\ IF zipI = Len(srcItems)
       THEN /\ ItReturn([done |-> TRUE, value |-> undefined])
            /\ zipI' = 0
       ELSE /\ zipI' = zipI + 1
            /\ ItReturn([done |-> FALSE, value |-> <<srcItems[zipI + 1], zipB[zipI + 1]>>])
    /\ UNCHANGED <<itKind, itPc, srcItems, srcPos, srcNexts, itFn, fnCalls, curItems,
                   curPos, itIsEmpty, zipB>>
    /\ UNCHANGED itFrame

ZipNext ==
    /\ ItMayAdvance("zip")
    /\ IF zipI = Len(srcItems)
       THEN /\ ItReturn([done |-> TRUE, value |-> undefined])
            /\ UNCHANGED zipI
       ELSE /\ zipI' = zipI + 1
            /\ ItReturn([done |-> FALSE, value |-> <<srcItems[zipI + 1], zipB[zipI + 1]>>])
    /\ UNCHANGED <<itKind, itPc, srcItems, srcPos, srcNexts, itFn, fnCalls, curItems,
                   curPos, itIsEmpty, zipB>>
    /\ UNCHANGED itFrame

\* mapIterator(iter, mapFn), lines 322-323: the result is returned, nothing runs.
MapIterator ==
    /\ itPc = "new" /\ itKind = "map"
    /\ itPc' = "built"
    /\ UNCHANGED <<itKind, srcItems, srcPos, srcNexts, itFn, fnCalls, curItems,
                   curPos, itIsEmpty, zipB, zipI, itOut, itNexts, itDone>>
    /\ UNCHANGED itFrame

\* next() of mapIterator, lines 324-327.
MapNext ==
    /\ ItMayAdvance("map")
    /\ srcNexts' = srcNexts + 1
    /\ IF srcPos >= Len(srcItems)
       THEN /\ ItReturn([done |-> TRUE, value |-> undefined])
            /\ UNCHANGED <<srcPos, fnCalls>>
       ELSE /\ srcPos' = srcPos + 1
            /\ fnCalls' = fnCalls + 1
            /\ ItReturn([done |-> FALSE, value |-> itFn[srcPos + 1]])
    /\ UNCHANGED <<itKind, itPc, srcItems, itFn, curItems, curPos, itIsEmpty, zipB, zipI>>
    /\ UNCHANGED itFrame

\* mapDefinedIterator(iter, mapFn), lines 500-501.
MapDefinedIterator ==
    /\ itPc = "new" /\ itKind = "mapDefined"
    /\ itPc' = "built"
    /\ UNCHANGED <<itKind, srcItems, srcPos, srcNexts, itFn, fnCalls, curItems,
                   curPos, itIsEmpty, zipB, zipI, itOut, itNexts, itDone>>
    /\ UNCHANGED itFrame

\* Lines 503-512: the loop of mapDefinedIterator's next(), with the source at
\* pos after `nexts` calls of iter.next() and `calls` of mapFn.
RECURSIVE mapDefinedLoopSkipsFalsy(_, _, _, _, _)
mapDefinedLoopSkipsFalsy(items, fn, pos, nexts, calls) ==
    IF pos >= Len(items)
    THEN [done |-> TRUE, value |-> undefined, pos |-> pos,
          nexts |-> nexts + 1, calls |-> calls]
    ELSE LET value == fn[pos + 1] IN
         IF Truthy(value)
         THEN [done |-> FALSE, value |-> value, pos |-> pos + 1,
               nexts |-> nexts + 1, calls |-> calls + 1]
         ELSE mapDefinedLoopSkipsFalsy(items, fn, pos + 1, nexts + 1, calls + 1)

RECURSIVE mapDefinedLoop(_, _, _, _, _)
mapDefinedLoop(items, fn, pos, nexts, calls) ==
    IF pos >= Len(items)
    THEN [done |-> TRUE, value |-> undefined, pos |-> pos,
          nexts |-> nexts + 1, calls |-> calls]
    ELSE LET value == fn[pos + 1] IN
         IF value # undefined
         THEN [done |-> FALSE, value |-> value, pos |-> pos + 1,
               nexts |-> nexts + 1, calls |-> calls + 1]
         ELSE mapDefinedLoop(items, fn, pos + 1, nexts + 1, calls + 1)

\* next() of mapDefinedIterator, lines 502-513.
MapDefinedNext ==
    /\ ItMayAdvance("mapDefined")
    /\ LET res == mapDefinedLoop(srcItems, itFn, srcPos, srcNexts, fnCalls) IN
        /\ srcPos' = res.pos
        /\ srcNexts' = res.nexts
        /\ fnCalls' = res.calls
        /\ ItReturn(res)
    /\ UNCHANGED <<itKind, itPc, srcItems, itFn, curItems, curPos, itIsEmpty, zipB, zipI>>
    /\ UNCHANGED itFrame

\* getIterator(x) of flatMapIterator, lines 438-441, for the p-th source
\* element: the elements the iterator will hand out.
flatMapGetIterator(fn, p) ==
    LET res == fn[p] IN
    IF res.kind = "undefined" THEN <<>> ELSE ItSubItems(p, res)

\* flatMapIterator(iter, mapfn), lines 417-422.
FlatMapIterator ==
    /\ itPc = "new" /\ itKind = "flatMap"
    /\ itPc' = "built"
    /\ srcNexts' = srcNexts + 1
    /\ IF srcPos >= Len(srcItems)
       THEN /\ itIsEmpty' = TRUE
            /\ UNCHANGED <<srcPos, fnCalls, curItems, curPos>>
       ELSE /\ srcPos' = srcPos + 1
            /\ fnCalls' = fnCalls + 1
            /\ curItems' = flatMapGetIterator(itFn, srcPos + 1)
            /\ curPos' = 0
            /\ UNCHANGED itIsEmpty
    /\ UNCHANGED <<itKind, srcItems, itFn, zipB, zipI, itOut, itNexts, itDone>>
    /\ UNCHANGED itFrame

\* Lines 424-434: the loop of flatMapIterator's next(), on the loop state
\* st = [cur, curPos, pos, nexts, calls].
RECURSIVE flatMapLoopNoSkip(_, _, _)
flatMapLoopNoSkip(items, fn, st) ==
    IF st.curPos < Len(st.cur)
    THEN [st EXCEPT !.curPos = st.curPos + 1] @@
         [done |-> FALSE, value |-> st.cur[st.curPos + 1]]
    ELSE IF st.pos >= Len(items)
    THEN [st EXCEPT !.nexts = st.nexts + 1] @@ [done |-> TRUE, value |-> undefined]
    ELSE LET cur == flatMapGetIterator(fn, st.pos + 1)
             st2 == [st EXCEPT !.cur = cur, !.curPos = 0, !.pos = st.pos + 1,
                               !.nexts = st.nexts + 1, !.calls = st.calls + 1]
         IN IF cur = <<>>
            THEN st2 @@ [done |-> TRUE, value |-> undefined]
            ELSE flatMapLoopNoSkip(items, fn, st2)

RECURSIVE flatMapLoop(_, _, _)
flatMapLoop(items, fn, st) ==
    IF st.curPos < Len(st.cur)
    THEN [st EXCEPT !.curPos = st.curPos + 1] @@
         [done |-> FALSE, value |-> st.cur[st.curPos + 1]]
    ELSE IF st.pos >= Len(items)
    THEN [st EXCEPT !.nexts = st.nexts + 1] @@ [done |-> TRUE, value |-> undefined]
    ELSE flatMapLoop(items, fn,
            [st EXCEPT !.cur = flatMapGetIterator(fn, st.pos + 1), !.curPos = 0,
                       !.pos = st.pos + 1, !.nexts = st.nexts + 1,
                       !.calls = st.calls + 1])

\* next() of the iterator flatMapIterator returned: emptyIterator's next
\* (line 570) or lines 423-435.
FlatMapNext ==
    /\ ItMayAdvance("flatMap")
    /\ IF itIsEmpty
       THEN /\ ItReturn([done |-> TRUE, value |-> undefined])
            /\ UNCHANGED <<srcPos, srcNexts, fnCalls, curItems, curPos>>
       ELSE LET res == flatMapLoop(srcItems, itFn,
                            [cur |-> curItems, curPos |-> curPos, pos |-> srcPos,
                             nexts |-> srcNexts, calls |-> fnCalls])
            IN /\ curItems' = res.cur
               /\ curPos' = res.curPos
               /\ srcPos' = res.pos
               /\ srcNexts' = res.nexts
               /\ fnCalls' = res.calls
               /\ ItReturn(res)
    /\ UNCHANGED <<itKind, itPc, srcItems, itFn, itIsEmpty, zipB, zipI>>
    /\ UNCHANGED itFrame

\* A next() call on the result is a step that counts one more call.
ItNextCalled == itNexts' = itNexts + 1

\* How many elements from position pos on (0-based) the mapDefined callback
\* maps to no value before the first one it maps to a value, or the end.
ItSkippedFrom(pos) ==
    LET stop == CHOOSE k \in pos..Len(srcItems) :
                    /\ k = Len(srcItems) \/ itFn[k + 1] # undefined
                    /\ \A j \in pos..(k - 1) : itFn[j + 1] = undefined
    IN stop - pos

\* C6 as stated: every next() on the result of mapIterator, mapDefinedIterator
\* or zipToIterator advances the upstream source exactly once (for zip: moves
\* the position i by exactly one).
C6_OneAdvancePerNext ==
    [][ItNextCalled =>
            /\ itKind \in {"map", "mapDefined"} => srcNexts' = srcNexts + 1
            /\ itKind = "zip" => zipI' = zipI + 1]_vars

\* C6 as amended: a next() of mapIterator advances the source exactly once; a
\* next() of zipToIterator moves i by exactly one until i is the arrays'
\* length and then leaves it; a next() of mapDefinedIterator advances the
\* source once per element it skips (the callback gave no value) and once
\* more, for the element it yields or to find the source exhausted.
C6_AdvancesPerNext ==
    [][ItNextCalled =>
            /\ itKind = "map" => srcNexts' = srcNexts + 1
            /\ itKind = "zip" =>
                zipI' = IF zipI = Len(srcItems) THEN zipI ELSE zipI + 1
            /\ itKind = "mapDefined" =>
                /\ srcNexts' = srcNexts + ItSkippedFrom(srcPos) + 1
                /\ srcPos' = IF itDone' = itDone THEN srcPos + ItSkippedFrom(srcPos) + 1
                             ELSE Len(srcItems)]_vars

\* The first next() of a mapDefinedIterator skipped two elements and yielded
\* the third: three advances of the source for one of the result.
C6_Witness ==
    /\ itKind = "mapDefined" /\ itPc = "built"
    /\ itNexts = 1 /\ srcNexts = 3 /\ Len(itOut) = 1 /\ itDone = 0

\* C7: constructing mapIterator, flatMapIterator or mapDefinedIterator neither
\* advances the source nor invokes the callback: before the first next() on
\* the result, the source was never advanced and the callback never invoked.
C7_ConstructionConsumesNothing ==
    (itPc = "built" /\ itNexts = 0 /\ itKind \in {"map", "flatMap", "mapDefined"})
        => (srcNexts = 0 /\ fnCalls = 0)

\* C14: zipToIterator fails its assertion, before any iterator is returned
\* or element produced, exactly when the two arrays differ in length; when
\* they have the same length the iterator yields the pairs
\* [arrayA[i], arrayB[i]] in order, one per arrayA element, and every
\* advance after them reports done.
C14_ZipFailsFastOrYieldsPairs ==
    (itKind = "zip" /\ itPc # "new") =>
        /\ (itPc = "failed") <=> (Len(srcItems) # Len(zipB))
        /\ itPc = "failed" => (itNexts = 0 /\ itOut = <<>> /\ itDone = 0)
        /\ itPc = "built" =>
            /\ Len(itOut) <= Len(srcItems)
            /\ itOut = [k \in 1..Len(itOut) |-> <<srcItems[k], zipB[k]>>]
            /\ itNexts = Len(itOut) + itDone
            /\ itDone > 0 => Len(itOut) = Len(srcItems)

\* Two arrays of three elements gave three pairs and then done, twice.
C14_Witness ==
    /\ itKind = "zip" /\ itPc = "built"
    /\ Len(srcItems) = 3 /\ Len(zipB) = 3
    /\ itOut = <<<<ItElement(1), ItElementB(1)>>, <<ItElement(2), ItElementB(2)>>,
                 <<ItElement(3), ItElementB(3)>>>>
    /\ itDone = 2 /\ itNexts = 5

\* The defined results among the first n results of the callback, in order.
ItDefinedResults(fn, n) ==
    SelectSeq(SubSeq(fn, 1, n), LAMBDA v : v # undefined)

\* C15: mapDefinedIterator yields, in source order, exactly the results
\* f(x) that are not undefined: a falsy but defined result (0, the empty
\* string, false, null) is yielded, and only undefined is skipped.
C15_MapDefinedYieldsDefined ==
    (itKind = "mapDefined" /\ itPc = "built") =>
        /\ itOut = ItDefinedResults(itFn, srcPos)
        /\ itDone > 0 => itOut = ItDefinedResults(itFn, Len(srcItems))

\* The callback gave null, undefined and 0: null and 0 were yielded, the
\* undefined result skipped, and done was reported.
C15_Witness ==
    /\ itKind = "mapDefined" /\ itPc = "built"
    /\ itFn = <<jsNull, undefined, 0>>
    /\ itOut = <<jsNull, 0>>
    /\ itDone > 0

\* The concatenation of the callback's results on the source elements from the p-th on.
RECURSIVE ItFlatConcat(_, _)
ItFlatConcat(fn, p) ==
    IF p > Len(fn) THEN <<>>
    ELSE (IF fn[p].kind = "undefined" THEN <<>> ELSE ItSubItems(p, fn[p]))
         \o ItFlatConcat(fn, p + 1)

IsPrefix(s, t) == Len(s) <= Len(t) /\ \A k \in 1..Len(s) : s[k] = t[k]

\* C8: the values flatMapIterator's result produces until it reports done are
\* the in-order concatenation of mapfn(x) over the source elements, empty and
\* undefined sub-results skipped; done is reported only with both the current
\* sub-source and the outer source exhausted.
C8_FlatMapConcatenation ==
    (itKind = "flatMap" /\ itPc = "built") =>
        /\ IsPrefix(itOut, ItFlatConcat(itFn, 1))
        /\ itDone > 0 =>
            /\ itOut = ItFlatConcat(itFn, 1)
            /\ srcPos = Len(srcItems)
            /\ curPos = Len(curItems)

\* An undefined and an empty sub-result in a row were skipped, the elements
\* of the third were produced, and done was reported.
C8_Witness ==
    /\ itKind = "flatMap" /\ itPc = "built"
    /\ Len(srcItems) = 3
    /\ itFn[1].kind = "undefined"
    /\ itFn[2].kind = "iterator" /\ itFn[2].len = 0
    /\ itFn[3].kind = "array" /\ itFn[3].len = 2
    /\ itOut = ItSubItems(3, itFn[3])
    /\ itDone > 0

----------------------------------------------------------------------------
(* insertSorted, lines 773-783 *)

ISMaxLen == 3
ISMaxVal == 5

ISIdle ==
    /\ isArray = undefined /\ isInsert = undefined /\ isOrig = <<>> /\ isPc = "idle"

\* The caller's arguments: a SortedArray (any array sorted under the
\* comparer, with or without duplicates) and any element.
ISInit ==
    \E a \in {x \in SeqsUpTo(1..ISMaxVal, ISMaxLen) : arrayIsSorted(x)} :
        /\ heap = <<a>>
        /\ isArray = 1
        /\ isOrig = a
        /\ isInsert \in 1..ISMaxVal
        /\ isPc = "ready"

\* ~n, the bitwise complement of a 32-bit integer.
BitNot(n) == -n - 1

\* The loop of the binary search on [low, high] (0-based, inclusive): the
\* index of an element that compares equal to the key, or ~low of the
\* insertion point.
RECURSIVE binarySearchFrom(_, _, _, _)
binarySearchFrom(array, key, low, high) ==
    IF low > high THEN BitNot(low)
    ELSE LET middle == low + ((high - low) \div 2)
             c == compareValues(array[middle + 1], key)
         IN IF c = LessThan THEN binarySearchFrom(array, key, middle + 1, high)
            ELSE IF c = EqualTo THEN middle
            ELSE binarySearchFrom(array, key, low, middle - 1)

\* binarySearch(array, value, identity, compare).
binarySearch(array, value) ==
    IF Len(array) = 0 THEN -1 ELSE binarySearchFrom(array, value, 0, Len(array) - 1)

\* array.splice(index, 0, item): the contents after inserting item at index.
Splice(array, index, item) ==
    [k \in 1..(Len(array) + 1) |->
        IF k <= index THEN array[k] ELSE IF k = index + 1 THEN item ELSE array[k - 1]]

\* insertSorted(array, insert, compare): the contents of the array after the call.
insertSortedKeepsDuplicates(array, insert) ==
    IF Len(array) = 0 THEN Append(array, insert)
    ELSE LET insertIndex == binarySearch(array, insert) IN
         IF insertIndex < 0 THEN Splice(array, BitNot(insertIndex), insert)
         ELSE Splice(array, insertIndex, insert)

insertSorted(array, insert) ==
    IF Len(array) = 0 THEN Append(array, insert)
    ELSE LET insertIndex == binarySearch(array, insert) IN
         IF insertIndex < 0 THEN Splice(array, BitNot(insertIndex), insert) ELSE array

InsertSorted ==
    /\ isPc = "ready"
    /\ heap' = [heap EXCEPT ![isArray] = insertSorted(heap[isArray], isInsert)]
    /\ isPc' = "returned"
    /\ UNCHANGED <<isArray, isInsert, isOrig>>
    /\ UNCHANGED isFrame

Elements(s) == {s[k] : k \in 1..Len(s)}

\* C9: after insertSorted on a sorted array without duplicates the array is
\* still sorted; if an element compared equal to v it is unchanged, otherwise
\* it holds exactly the old elements and v (one element more); inserting into
\* an empty array yields [v].
C9_InsertSortedKeepsSet ==
    (isPc = "returned" /\ StrictlySorted(isOrig)) =>
        /\ arrayIsSorted(heap[isArray])
        /\ StrictlySorted(heap[isArray])
        /\ (\E k \in 1..Len(isOrig) : compareValues(isOrig[k], isInsert) = EqualTo)
                => heap[isArray] = isOrig
        /\ (\A k \in 1..Len(isOrig) : compareValues(isOrig[k], isInsert) # EqualTo)
                => /\ Len(heap[isArray]) = Len(isOrig) + 1
                   /\ Elements(heap[isArray]) = Elements(isOrig) \cup {isInsert}
        /\ isOrig = <<>> => heap[isArray] = <<isInsert>>

\* insertSorted([1,3,5], 4) gave [1,3,4,5].
C9_Witness ==
    /\ isPc = "returned"
    /\ isOrig = <<1, 3, 5>> /\ isInsert = 4
    /\ heap[isArray] = <<1, 3, 4, 5>>

----------------------------------------------------------------------------
(* append, lines 911-916.  The caller keeps the array in a variable and    *)
(* stores what append returns back into it (as flatMap does, line 390).    *)

APMaxLen == 1
APMaxVal == 2
APMaxCalls == 3

\* The values of elements: the numbers 0 (falsy) to APMaxVal.
APValues == 0..APMaxVal

APIdle ==
    /\ apTo = undefined /\ apValue = undefined /\ apReturn = undefined /\ apCalls = 0

\* The caller starts without an array, or with any array.
APInit ==
    /\ \E a \in SeqsUpTo(APValues, APMaxLen) : \E absent \in BOOLEAN :
        /\ absent => a = <<>>
        /\ heap = IF absent THEN <<>> ELSE <<a>>
        /\ apTo = IF absent THEN undefined ELSE 1
    /\ apValue = undefined /\ apReturn = undefined /\ apCalls = 0

\* append(to, value) on the heap h: [ret |-> what is returned, heap |-> the heap after].
appendSkipsFalsy(h, to, value) ==
    IF ~Truthy(value) THEN [ret |-> to, heap |-> h]
    ELSE IF to = undefined THEN [ret |-> NewRef(h), heap |-> Append(h, <<value>>)]
    ELSE [ret |-> to, heap |-> [h EXCEPT ![to] = Append(@, value)]]

append(h, to, value) ==
    IF value = undefined THEN [ret |-> to, heap |-> h]
    ELSE IF to = undefined THEN [ret |-> NewRef(h), heap |-> Append(h, <<value>>)]
    ELSE [ret |-> to, heap |-> [h EXCEPT ![to] = Append(@, value)]]

\* to = append(to, value), for any value, defined or not.
AppendCall ==
    /\ apCalls < APMaxCalls
    /\ \E value \in APValues \cup {undefined} :
        LET res == append(heap, apTo, value) IN
        /\ apValue' = value
        /\ apReturn' = res.ret
        /\ heap' = res.heap
        /\ apTo' = res.ret
    /\ apCalls' = apCalls + 1
    /\ UNCHANGED apFrame

\* C10: append(to, undefined) returns to itself and changes nothing, also
\* when to is undefined; append(undefined, v) returns a new array [v];
\* append(to, v) pushes v at the end of to in place and returns to, the
\* earlier elements (and every other array) unchanged.
C10_AppendLaws ==
    [][apCalls' = apCalls + 1 =>
            /\ apValue' = undefined =>
                (apReturn' = apTo /\ heap' = heap)
            /\ (apValue' # undefined /\ apTo = undefined) =>
                /\ apReturn' \notin DOMAIN heap
                /\ apReturn' \in DOMAIN heap'
                /\ heap'[apReturn'] = <<apValue'>>
                /\ \A r \in DOMAIN heap : heap'[r] = heap[r]
            /\ (apValue' # undefined /\ apTo # undefined) =>
                /\ apReturn' = apTo
                /\ DOMAIN heap' = DOMAIN heap
                /\ heap'[apTo] = Append(heap[apTo], apValue')
                /\ \A r \in DOMAIN heap \ {apTo} : heap'[r] = heap[r]]_vars

\* append(undefined, 1) allocated [1], append of undefined then left it
\* alone, and append of 0 pushed 0 onto the same array.
C10_Witness ==
    /\ apCalls = 3
    /\ apTo = 1 /\ apReturn = 1
    /\ heap = <<<<1, 0>>>>
    /\ apValue = 0

----------------------------------------------------------------------------
(* combine, lines 932-938, with some (647-663) and concatenate (686-690).  *)
(* An operand is a record [kind, val]: kind "absent" (undefined), "single" *)
(* (val is the value) or "array" (val is the reference), so that the test  *)
(* isArray(x) of the code is x.kind = "array".                             *)

CBMaxLen == 2
CBMaxVal == 2

\* The values of elements and of single operands: 0 (falsy) to CBMaxVal.
CBValues == 0..CBMaxVal

CBAbsent == [kind |-> "absent", val |-> undefined]
CBSingle(v) == [kind |-> "single", val |-> v]
CBArray(r) == [kind |-> "array", val |-> r]

CBIdle ==
    /\ cbXs = CBAbsent /\ cbYs = CBAbsent /\ cbHeap0 = <<>>
    /\ cbReturn = CBAbsent /\ cbPc = "idle"

\* Every pair of operands: each absent, any single value, or any array
\* (two array operands are two distinct arrays).
CBInit ==
    /\ \E kx, ky \in {"absent", "single", "array"} :
       \E vx, vy \in CBValues :
       \E ax, ay \in SeqsUpTo(CBValues, CBMaxLen) :
        /\ kx # "single" => vx = 0
        /\ ky # "single" => vy = 0
        /\ kx # "array" => ax = <<>>
        /\ ky # "array" => ay = <<>>
        /\ heap = (IF kx = "array" THEN <<ax>> ELSE <<>>)
                    \o (IF ky = "array" THEN <<ay>> ELSE <<>>)
        /\ cbXs = IF kx = "absent" THEN CBAbsent
                  ELSE IF kx = "single" THEN CBSingle(vx) ELSE CBArray(1)
        /\ cbYs = IF ky = "absent" THEN CBAbsent
                  ELSE IF ky = "single" THEN CBSingle(vy)
                  ELSE CBArray(IF kx = "array" THEN 2 ELSE 1)
    /\ cbHeap0 = <<>> /\ cbReturn = CBAbsent /\ cbPc = "ready"

\* some(array) without a predicate: the array is present and not empty.
some(h, array) ==
    IF array # undefined THEN Len(h[array]) > 0 ELSE FALSE

\* concatenate(array1, array2): [ret |-> the reference returned, heap |-> the heap after].
concatenateReversed(h, array1, array2) ==
    IF ~some(h, array2) THEN [ret |-> array1, heap |-> h]
    ELSE IF ~some(h, array1) THEN [ret |-> array2, heap |-> h]
    ELSE [ret |-> NewRef(h), heap |-> Append(h, h[array2] \o h[array1])]

concatenate(h, array1, array2) ==
    IF ~some(h, array2) THEN [ret |-> array1, heap |-> h]
    ELSE IF ~some(h, array1) THEN [ret |-> array2, heap |-> h]
    ELSE [ret |-> NewRef(h), heap |-> Append(h, h[array1] \o h[array2])]

\* combine(xs, ys): [ret |-> the operand returned, heap |-> the heap after].
combineSwapsSingles(h, xs, ys) ==
    IF xs.kind = "absent" THEN [ret |-> ys, heap |-> h]
    ELSE IF ys.kind = "absent" THEN [ret |-> xs, heap |-> h]
    ELSE IF xs.kind = "array" THEN
        IF ys.kind = "array"
        THEN LET res == concatenate(h, xs.val, ys.val) IN
             [ret |-> CBArray(res.ret), heap |-> res.heap]
        ELSE LET res == append(h, xs.val, ys.val) IN
             [ret |-> CBArray(res.ret), heap |-> res.heap]
    ELSE IF ys.kind = "array" THEN
        LET res == append(h, ys.val, xs.val) IN
        [ret |-> CBArray(res.ret), heap |-> res.heap]
    ELSE [ret |-> CBArray(NewRef(h)), heap |-> Append(h, <<ys.val, xs.val>>)]

combine(h, xs, ys) ==
    IF xs.kind = "absent" THEN [ret |-> ys, heap |-> h]
    ELSE IF ys.kind = "absent" THEN [ret |-> xs, heap |-> h]
    ELSE IF xs.kind = "array" THEN
        IF ys.kind = "array"
        THEN LET res == concatenate(h, xs.val, ys.val) IN
             [ret |-> CBArray(res.ret), heap |-> res.heap]
        ELSE LET res == append(h, xs.val, ys.val) IN
             [ret |-> CBArray(res.ret), heap |-> res.heap]
    ELSE IF ys.kind = "array" THEN
        LET res == append(h, ys.val, xs.val) IN
        [ret |-> CBArray(res.ret), heap |-> res.heap]
    ELSE [ret |-> CBArray(NewRef(h)), heap |-> Append(h, <<xs.val, ys.val>>)]

\* A call combine(xs, ys).
Combine ==
    /\ cbPc = "ready"
    /\ LET res == combine(heap, cbXs, cbYs) IN
        /\ cbReturn' = res.ret
        /\ heap' = res.heap
    /\ cbHeap0' = heap
    /\ cbPc' = "returned"
    /\ UNCHANGED <<cbXs, cbYs>>
    /\ UNCHANGED cbFrame

\* The elements of an operand on the heap h: none for an absent operand,
\* the value for a single one, the contents for an array.
CBElements(h, x) ==
    IF x.kind = "absent" THEN <<>>
    ELSE IF x.kind = "single" THEN <<x.val>> ELSE h[x.val]

\* C11: combine(absent, X) and combine(X, absent) return X itself (the same
\* value or reference, nothing changed); two single values a, b give an
\* array [a, b]; a single value and an array, in either order, give that
\* array with the single value appended; two arrays give an array holding
\* their concatenation.
C11_CombineCardinalityLaws ==
    cbPc = "returned" =>
        /\ cbXs.kind = "absent" => (cbReturn = cbYs /\ heap = cbHeap0)
        /\ cbYs.kind = "absent" => (cbReturn = cbXs /\ heap = cbHeap0)
        /\ (cbXs.kind = "single" /\ cbYs.kind = "single") =>
            /\ cbReturn.kind = "array"
            /\ heap[cbReturn.val] = <<cbXs.val, cbYs.val>>
        /\ (cbXs.kind = "array" /\ cbYs.kind = "single") =>
            /\ cbReturn.kind = "array"
            /\ heap[cbReturn.val] = Append(cbHeap0[cbXs.val], cbYs.val)
        /\ (cbXs.kind = "single" /\ cbYs.kind = "array") =>
            /\ cbReturn.kind = "array"
            /\ heap[cbReturn.val] = Append(cbHeap0[cbYs.val], cbXs.val)
        /\ (cbXs.kind = "array" /\ cbYs.kind = "array") =>
            /\ cbReturn.kind = "array"
            /\ heap[cbReturn.val] = cbHeap0[cbXs.val] \o cbHeap0[cbYs.val]

\* combine(2, [0, 1]) returned the array, now [0, 1, 2].
C11_Witness ==
    /\ cbPc = "returned"
    /\ cbXs = CBSingle(2) /\ cbYs = CBArray(1)
    /\ cbHeap0 = <<<<0, 1>>>>
    /\ cbReturn = CBArray(1) /\ heap = <<<<0, 1, 2>>>>

\* C20 as stated: for every combination of cardinalities the elements of
\* combine(xs, ys) are the elements of xs followed by the elements of ys.
C20_OperandOrderPreserved ==
    cbPc = "returned" =>
        CBElements(heap, cbReturn)
            = CBElements(cbHeap0, cbXs) \o CBElements(cbHeap0, cbYs)

\* C20 amended: the elements of combine(xs, ys) are the elements of xs
\* followed by those of ys, except when xs is a single value and ys an
\* array: then they are the elements of ys followed by xs.
C20_OperandOrderExceptSingleArray ==
    cbPc = "returned" =>
        CBElements(heap, cbReturn)
            = IF cbXs.kind = "single" /\ cbYs.kind = "array"
              THEN CBElements(cbHeap0, cbYs) \o CBElements(cbHeap0, cbXs)
              ELSE CBElements(cbHeap0, cbXs) \o CBElements(cbHeap0, cbYs)

\* combine(1, [0, 2]) returned the array, now [0, 2, 1]: the elements of ys
\* first, then xs.
C20_Witness ==
    /\ cbPc = "returned"
    /\ cbXs = CBSingle(1) /\ cbYs = CBArray(1)
    /\ cbHeap0 = <<<<0, 2>>>>
    /\ CBElements(heap, cbReturn) = <<0, 2, 1>>

----------------------------------------------------------------------------
(* addRange, lines 960-971, with toOffset (944-946).                       *)

ARMaxLen == 2
ARMaxToLen == 1
ARMaxVal == 1
ARMaxOff == 3

\* The values of elements: the numbers 0 (falsy) to ARMaxVal.
ARValues == 0..ARMaxVal

\* The start and end arguments: omitted, or an offset that may be negative
\* and may lie beyond the source's length.
AROffsets == {undefined} \cup (-ARMaxOff..ARMaxOff)

ARIdle ==
    /\ arTo = undefined /\ arFrom = undefined /\ arStart = undefined
    /\ arEnd = undefined /\ arHeap0 = <<>> /\ arReturn = undefined /\ arPc = "idle"

\* Every destination (absent or an array), every source (absent, or an array
\* other than the destination whose elements may be undefined), every start
\* and end.
ARInit ==
    /\ \E toAbsent, fromAbsent \in BOOLEAN :
       \E t \in SeqsUpTo(ARValues, ARMaxToLen) :
       \E f \in SeqsUpTo(ARValues \cup {undefined}, ARMaxLen) :
        /\ toAbsent => t = <<>>
        /\ fromAbsent => f = <<>>
        /\ heap = (IF toAbsent THEN <<>> ELSE <<t>>)
                    \o (IF fromAbsent THEN <<>> ELSE <<f>>)
        /\ arTo = IF toAbsent THEN undefined ELSE 1
        /\ arFrom = IF fromAbsent THEN undefined
                    ELSE IF toAbsent THEN 1 ELSE 2
    /\ arStart \in AROffsets
    /\ arEnd \in AROffsets
    /\ arHeap0 = <<>> /\ arReturn = undefined /\ arPc = "ready"

\* array[i] for a 0-based i: undefined when i is not an index of the array.
ElementAt(s, i) == IF i >= 0 /\ i < Len(s) THEN s[i + 1] ELSE undefined

\* The index Array.prototype.slice derives from an argument: the default
\* when it is omitted, counted from the end when negative, clamped to
\* 0..length.
SliceIndex(len, arg, default) ==
    IF arg = undefined THEN default
    ELSE IF arg < 0 THEN (IF len + arg < 0 THEN 0 ELSE len + arg)
    ELSE IF arg > len THEN len ELSE arg

\* from.slice(start, end).
ArraySlice(s, start, end) ==
    LET k == SliceIndex(Len(s), start, 0)
        final == SliceIndex(Len(s), end, Len(s))
    IN  IF k < final THEN Slice(s, k, final) ELSE <<>>

\* toOffset(array, offset).
toOffset(s, offset) == IF offset < 0 THEN Len(s) + offset ELSE offset

\* The loop of lines 965-969 from position i: the contents of `to` after it.
RECURSIVE addRangeLoop(_, _, _, _)
addRangeLoop(to, from, i, end) ==
    IF i < end /\ i < Len(from)
    THEN addRangeLoop(IF ElementAt(from, i) # undefined
                      THEN Append(to, ElementAt(from, i)) ELSE to,
                      from, i + 1, end)
    ELSE to

\* addRange(to, from, start, end): [ret |-> the reference returned, heap |-> the heap after].
addRange(h, to, from, start, end) ==
    IF from = undefined THEN [ret |-> to, heap |-> h]
    ELSE IF Len(h[from]) = 0 THEN [ret |-> to, heap |-> h]
    ELSE IF to = undefined
    THEN [ret |-> NewRef(h), heap |-> Append(h, ArraySlice(h[from], start, end))]
    ELSE LET s == IF start = undefined THEN 0 ELSE toOffset(h[from], start)
             e == IF end = undefined THEN Len(h[from]) ELSE toOffset(h[from], end)
         IN  [ret |-> to,
              heap |-> [h EXCEPT ![to] = addRangeLoop(@, h[from], s, e)]]

\* A call addRange(to, from, start, end).
AddRange ==
    /\ arPc = "ready"
    /\ LET res == addRange(heap, arTo, arFrom, arStart, arEnd) IN
        /\ arReturn' = res.ret
        /\ heap' = res.heap
    /\ arHeap0' = heap
    /\ arPc' = "returned"
    /\ UNCHANGED <<arTo, arFrom, arStart, arEnd>>
    /\ UNCHANGED arFrame

\* The elements of s that are not undefined, in order.
ARDefined(s) == SelectSeq(s, LAMBDA v : v # undefined)

\* C12: for every destination, present or absent, every non-empty source
\* and every start and end (a negative one counted from the end of the
\* source), the array addRange returns holds the destination's original
\* elements followed by exactly the elements of from[start, end) that are
\* not undefined, in order: no undefined element of the source is in it.
C12_AddRangeAppendsDefined ==
    (arPc = "returned" /\ arFrom # undefined) =>
        (Len(arHeap0[arFrom]) > 0 =>
            /\ arReturn # undefined
            /\ heap[arReturn]
                = (IF arTo = undefined THEN <<>> ELSE arHeap0[arTo])
                    \o ARDefined(ArraySlice(arHeap0[arFrom], arStart, arEnd)))

\* The destination-present path alone: the destination itself is returned,
\* extended in place by the defined elements of the range.
ARPresentPath ==
    (arPc = "returned" /\ arFrom # undefined /\ arTo # undefined) =>
        /\ arReturn = arTo
        /\ heap[arTo] = arHeap0[arTo]
                \o ARDefined(ArraySlice(arHeap0[arFrom], arStart, arEnd))

----------------------------------------------------------------------------
(* emptyIterator (line 570) and singleIterator (lines 572-581).            *)
(* emptyIterator is one object of the module, shared by every call site:  *)
(* its next() reads and writes nothing.                                    *)

SEMaxVal == 1
SEMaxNexts == 3
SEMaxEmptyNexts == 3
SEMaxSites == 2

\* What singleIterator may be given: undefined, or a number from 0 (falsy).
SEValues == {undefined} \cup (0..SEMaxVal)

\* The call sites that hold the shared emptyIterator.
SESites == 1..SEMaxSites

SEIdle ==
    /\ siValue = undefined /\ siDone = FALSE /\ siResults = <<>>
    /\ emResults = <<>> /\ sePc = "idle"

SEInit ==
    /\ siValue \in SEValues
    /\ siDone = FALSE /\ siResults = <<>> /\ emResults = <<>>
    /\ sePc = "new"

\* singleIterator(value), lines 572-574: let done = false, and the iterator
\* is returned.
SingleIterator ==
    /\ sePc = "new"
    /\ siDone' = FALSE
    /\ sePc' = "built"
    /\ UNCHANGED <<siValue, siResults, emResults>>
    /\ UNCHANGED seFrame

\* next() of singleIterator, lines 575-579: [res |-> what is returned,
\* done |-> the closure's variable after].
singleNextForgetsDone(value, done) ==
    LET wasDone == done IN
    [res |-> IF wasDone THEN [done |-> TRUE, value |-> undefined]
             ELSE [done |-> FALSE, value |-> value],
     done |-> done]

singleNext(value, done) ==
    LET wasDone == done IN
    [res |-> IF wasDone THEN [done |-> TRUE, value |-> undefined]
             ELSE [done |-> FALSE, value |-> value],
     done |-> TRUE]

SingleNext ==
    /\ sePc = "built"
    /\ Len(siResults) < SEMaxNexts
    /\ LET r == singleNext(siValue, siDone) IN
        /\ siResults' = Append(siResults, r.res)
        /\ siDone' = r.done
    /\ UNCHANGED <<siValue, emResults, sePc>>
    /\ UNCHANGED seFrame

\* emptyIterator.next(), line 570.
emptyNext == [done |-> TRUE, value |-> undefined]

\* A call site advances the shared emptyIterator, at any time.
EmptyNext ==
    /\ sePc \in {"new", "built"}
    /\ Len(emResults) < SEMaxEmptyNexts
    /\ \E site \in SESites :
        emResults' = Append(emResults, [site |-> site] @@ emptyNext)
    /\ UNCHANGED <<siValue, siDone, siResults, sePc>>
    /\ UNCHANGED seFrame

\* C16: singleIterator(x) reports the value x with done = false on its
\* first advance and done on every later one; emptyIterator reports done on
\* every advance, whichever call sites advance it and in whatever order,
\* and an advance of it changes no state of the iterators.
C16_SingleThenDoneEmptyAlwaysDone ==
    /\ [](/\ \A k \in 1..Len(siResults) :
              siResults[k] = IF k = 1 THEN [done |-> FALSE, value |-> siValue]
                             ELSE [done |-> TRUE, value |-> undefined]
          /\ \A k \in 1..Len(emResults) :
              emResults[k].done /\ emResults[k].value = undefined)
    /\ [][Len(emResults') > Len(emResults)
            => UNCHANGED <<siValue, siDone, siResults, sePc>>]_vars

\* singleIterator(0) gave 0 and then done twice, while two call sites
\* advanced emptyIterator in the order 2, 1, 2 and saw done each time.
C16_Witness ==
    /\ sePc = "built" /\ siValue = 0
    /\ siResults = <<[done |-> FALSE, value |-> 0],
                     [done |-> TRUE, value |-> undefined],
                     [done |-> TRUE, value |-> undefined]>>
    /\ Len(emResults) = 3
    /\ emResults[1].site = 2 /\ emResults[2].site = 1 /\ emResults[3].site = 2
    /\ \A k \in 1..3 : emResults[k].done

----------------------------------------------------------------------------
(* sameFlatMap, lines 453-473.  What mapfn returns for an element is a     *)
(* record [kind, val]: kind "single" (val is the value) or "array" (val is *)
(* the reference of the array returned), so that isArray(mapped) is        *)
(* mapped.kind = "array" and `item !== mapped` holds of every array.       *)

SFMaxLen == 3
SFMaxVal == 1
SFMaxSub == 2

\* The values of elements: the numbers 0 (falsy) to SFMaxVal.
SFValues == 0..SFMaxVal

\* What mapfn may do with an element: return a single value (the element
\* itself or another), or an array of 0 to SFMaxSub elements.
SFChoices ==
    [kind : {"single"}, val : SFValues, len : {0}]
    \cup [kind : {"array"}, val : {0}, len : 0..SFMaxSub]

\* The array mapfn returns for the element `item` at 0-based index i when it
\* returns an array of len elements: the element itself, then new values.
SFSubItems(item, i, len) ==
    [j \in 1..len |-> IF j = 1 THEN item ELSE 10 * (i + 1) + j]

\* The reference of the array returned for 0-based index i: the arrays the
\* callback returns follow the argument array in the heap.
SFRefOf(choice, i) ==
    1 + Cardinality({j \in 1..(i + 1) : choice[j].kind = "array"})

SFIdle ==
    /\ sfArray = undefined /\ sfMapfn = <<>> /\ sfHeap0 = <<>>
    /\ sfReturn = undefined /\ sfPc = "idle"

\* The caller's arguments: the array is absent or any sequence, and mapfn
\* makes any choice at each index.
SFInit ==
    /\ \E a \in SeqsUpTo(SFValues, SFMaxLen) : \E choice \in [1..Len(a) -> SFChoices] :
       \E absent \in BOOLEAN :
        /\ absent => a = <<>>
        /\ heap = IF absent THEN <<>>
                  ELSE [r \in 1..SFRefOf(choice, Len(a) - 1) |->
                          IF r = 1 THEN a
                          ELSE LET i == CHOOSE i \in 0..(Len(a) - 1) :
                                            /\ choice[i + 1].kind = "array"
                                            /\ SFRefOf(choice, i) = r
                               IN SFSubItems(a[i + 1], i, choice[i + 1].len)]
        /\ sfArray = IF absent THEN undefined ELSE 1
        /\ sfMapfn = [k \in 1..Len(a) |->
                        IF choice[k].kind = "single"
                        THEN [kind |-> "single", val |-> choice[k].val]
                        ELSE [kind |-> "array", val |-> SFRefOf(choice, k - 1)]]
    /\ sfHeap0 = <<>> /\ sfReturn = undefined /\ sfPc = "ready"

\* Lines 456-470: the loop from index i, with res the variable `result`, a
\* reference or undefined: [result |-> `result` after the loop, heap |-> the heap after].
RECURSIVE sameFlatMapLoopPushesItem(_, _, _, _, _)
sameFlatMapLoopPushesItem(h, array, mapfn, i, res) ==
    IF i >= Len(h[array]) THEN [result |-> res, heap |-> h]
    ELSE LET item == h[array][i + 1]
             mapped == mapfn[i + 1]
         IN IF \/ res # undefined
               \/ mapped.kind = "array"
               \/ item # mapped.val
            THEN LET r1 == IF res = undefined
                           THEN [ret |-> NewRef(h),
                                 heap |-> Append(h, Slice(h[array], 0, i))]
                           ELSE [ret |-> res, heap |-> h]
                     r2 == IF mapped.kind = "array"
                           THEN addRange(r1.heap, r1.ret, mapped.val, undefined, undefined)
                           ELSE [ret |-> r1.ret,
                                 heap |-> [r1.heap EXCEPT ![r1.ret] = Append(@, item)]]
                 IN sameFlatMapLoopPushesItem(r2.heap, array, mapfn, i + 1, r1.ret)
            ELSE sameFlatMapLoopPushesItem(h, array, mapfn, i + 1, res)

RECURSIVE sameFlatMapLoop(_, _, _, _, _)
sameFlatMapLoop(h, array, mapfn, i, res) ==
    IF i >= Len(h[array]) THEN [result |-> res, heap |-> h]
    ELSE LET item == h[array][i + 1]
             mapped == mapfn[i + 1]
         IN IF \/ res # undefined
               \/ mapped.kind = "array"
               \/ item # mapped.val
            THEN LET r1 == IF res = undefined
                           THEN [ret |-> NewRef(h),
                                 heap |-> Append(h, Slice(h[array], 0, i))]
                           ELSE [ret |-> res, heap |-> h]
                     r2 == IF mapped.kind = "array"
                           THEN addRange(r1.heap, r1.ret, mapped.val, undefined, undefined)
                           ELSE [ret |-> r1.ret,
                                 heap |-> [r1.heap EXCEPT ![r1.ret] = Append(@, mapped.val)]]
                 IN sameFlatMapLoop(r2.heap, array, mapfn, i + 1, r1.ret)
            ELSE sameFlatMapLoop(h, array, mapfn, i + 1, res)

\* sameFlatMap(array, mapfn): [ret |-> the reference returned, heap |-> the heap after].
sameFlatMap(h, array, mapfn) ==
    IF array = undefined THEN [ret |-> array, heap |-> h]
    ELSE LET run == sameFlatMapLoop(h, array, mapfn, 0, undefined) IN
         [ret |-> IF run.result # undefined THEN run.result ELSE array,
          heap |-> run.heap]

\* A call sameFlatMap(array, mapfn).
SameFlatMap ==
    /\ sfPc = "ready"
    /\ LET res == sameFlatMap(heap, sfArray, sfMapfn) IN
        /\ sfReturn' = res.ret
        /\ heap' = res.heap
    /\ sfHeap0' = heap
    /\ sfPc' = "returned"
    /\ UNCHANGED <<sfArray, sfMapfn>>
    /\ UNCHANGED sfFrame

\* mapfn returned, for the element at position k, that very element.
SFSame(k) == sfMapfn[k].kind = "single" /\ sfMapfn[k].val = sfHeap0[sfArray][k]

\* The results of mapfn on the elements from position p on, arrays spread.
RECURSIVE SFFlat(_)
SFFlat(p) ==
    IF p > Len(sfMapfn) THEN <<>>
    ELSE (IF sfMapfn[p].kind = "single" THEN <<sfMapfn[p].val>>
          ELSE sfHeap0[sfMapfn[p].val]) \o SFFlat(p + 1)

----------------------------------------------------------------------------
(* The mirroring script, src/index.ts.  A page is a sequence of tokens; the *)
(* shell commands are synchronous (shelljs exec), so a run of goMirror is   *)
(* one step.                                                                *)

MirrorMaxPage == 1
MirrorRunsChecked == 3

\* The delay given to setTimeout, line 29.
TimeoutMs == 1000 * 60 * 10

\* The tokens of a page: the origin's host name, a string that differs from
\* it only where the pattern has a dot (the pattern's dots are not escaped
\* once the JavaScript string is evaluated, so they match any character),
\* the CDN's host name, and any other text.
MirrorTokens ==
    {"dev3.mgbksmasoloraya.com", "dev3-mgbksmasoloraya-com",
     "mgbksmasoloraya.b-cdn.net", "text"}

\* What curl may fetch: any page (the empty one when the fetch fails).
MirrorPages == SeqsUpTo(MirrorTokens, MirrorMaxPage)

MirrorPaths ==
    {"website.html",
     "/data/wwwroot/backend.mgbksmasoloraya.com/index.html",
     "/data/wwwroot/backend.mgbksmasoloraya.com/edu-expo-2021/index.html"}

NoFile == [exists |-> FALSE, data |-> <<>>]

MirrorIdle ==
    /\ hasGit = FALSE /\ files = [p \in MirrorPaths |-> NoFile]
    /\ timerDue = undefined /\ now = 0 /\ mirrorRuns = 0
    /\ exitCode = undefined /\ mirrorPc = "idle"

\* The script starts on a machine with or without git; the destination
\* files may exist already, with any contents, from an earlier deployment.
MirrorInit ==
    /\ hasGit \in BOOLEAN
    /\ files \in [MirrorPaths -> {NoFile} \cup [exists : {TRUE}, data : MirrorPages]]
    /\ ~files["website.html"].exists
    /\ timerDue = undefined /\ now = 0 /\ mirrorRuns = 0
    /\ exitCode = undefined /\ mirrorPc = "start"

\* sed -e "s/find/replace/g" with the find and replace of lines 19 and 21.
sedReplace(page) ==
    [k \in 1..Len(page) |->
        IF page[k] \in {"dev3.mgbksmasoloraya.com", "dev3-mgbksmasoloraya-com"}
        THEN "mgbksmasoloraya.b-cdn.net" ELSE page[k]]

\* curlReplace(url, file, find, replace), lines 9-11, when curl fetches page.
curlReplace(fs, page, file) ==
    [fs EXCEPT ![file] = [exists |-> TRUE, data |-> sedReplace(page)]]

\* moveFile(file, dest), lines 14-16.
moveFile(fs, file, dest) ==
    IF fs[file].exists
    THEN [fs EXCEPT ![dest] = fs[file], ![file] = NoFile]
    ELSE fs

\* goMirror(), lines 18-23, when the two fetches give page1 and page2.
goMirror(fs, page1, page2) ==
    LET fs1 == curlReplace(fs, page1, "website.html")
        fs2 == moveFile(fs1, "website.html",
                        "/data/wwwroot/backend.mgbksmasoloraya.com/index.html")
        fs3 == curlReplace(fs2, page2, "website.html")
    IN  moveFile(fs3, "website.html",
                 "/data/wwwroot/backend.mgbksmasoloraya.com/edu-expo-2021/index.html")

\* Lines 3-6: without git the script exits with code 1.
MirrorExitNoGit ==
    /\ mirrorPc = "start" /\ ~hasGit
    /\ exitCode' = 1
    /\ mirrorPc' = "exited"
    /\ UNCHANGED <<hasGit, files, timerDue, now, mirrorRuns>>
    /\ UNCHANGED mirrorFrame

\* Lines 25-29: the first run of goMirror, then setTimeout arms one timer.
MirrorStart ==
    /\ mirrorPc = "start" /\ hasGit
    /\ \E page1, page2 \in MirrorPages : files' = goMirror(files, page1, page2)
    /\ mirrorRuns' = mirrorRuns + 1
    /\ timerDue' = now + TimeoutMs
    /\ mirrorPc' = "waiting"
    /\ UNCHANGED <<hasGit, now, exitCode>>
    /\ UNCHANGED mirrorFrame

\* Lines 27-29: the timer fires and its callback runs goMirror; setTimeout's
\* timer fires once, so nothing is pending afterwards.
MirrorTimeout ==
    /\ mirrorPc = "waiting" /\ timerDue # undefined
    /\ now' = timerDue
    /\ \E page1, page2 \in MirrorPages : files' = goMirror(files, page1, page2)
    /\ mirrorRuns' = mirrorRuns + 1
    /\ timerDue' = undefined
    /\ mirrorPc' = "finished"
    /\ UNCHANGED <<hasGit, exitCode>>
    /\ UNCHANGED mirrorFrame

\* C18: the script is a periodic job: unless it exits at start-up, goMirror
\* runs again after every interval, so for every n (here up to
\* MirrorRunsChecked) an n-th run eventually occurs.
C18_MirrorRunsPeriodically ==
    \A n \in 1..MirrorRunsChecked :
        <>(mirrorPc = "exited" \/ mirrorRuns >= n)

\* The same as a state predicate: after a run, a timer for the next run is
\* pending.
C18_TimerPendingAfterRun ==
    (mirrorPc \in {"waiting", "finished"} /\ mirrorRuns >= 1) => timerDue # undefined

----------------------------------------------------------------------------
(* The specifications, one per group of operations *)

RCNext == RCEnter \/ RCLoopB \/ RCLoopA

InitRC == RCInit /\ DedupIdle /\ SMIdle /\ SPIdle /\ ItIdle /\ ISIdle /\ APIdle /\ CBIdle /\ ARIdle /\ SEIdle /\ SFIdle /\ MirrorIdle

SpecRC == InitRC /\ [][RCNext]_vars

DedupNext == DeduplicateEq \/ DeduplicateRel

InitDedup == DedupInit /\ heap = <<>> /\ RCIdle /\ SMIdle /\ SPIdle /\ ItIdle /\ ISIdle /\ APIdle /\ CBIdle /\ ARIdle /\ SEIdle /\ SFIdle /\ MirrorIdle

SpecDedup == InitDedup /\ [][DedupNext]_vars

SMNext == SameMap

InitSM == SMInit /\ RCIdle /\ DedupIdle /\ SPIdle /\ ItIdle /\ ISIdle /\ APIdle /\ CBIdle /\ ARIdle /\ SEIdle /\ SFIdle /\ MirrorIdle

SpecSM == InitSM /\ [][SMNext]_vars

SPNext == SpanMap

InitSP == SPInit /\ RCIdle /\ DedupIdle /\ SMIdle /\ ItIdle /\ ISIdle /\ APIdle /\ CBIdle /\ ARIdle /\ SEIdle /\ SFIdle /\ MirrorIdle

SpecSP == InitSP /\ [][SPNext]_vars

ItNext ==
    \/ ZipToIterator \/ ZipNext
    \/ MapIterator \/ MapNext
    \/ MapDefinedIterator \/ MapDefinedNext
    \/ FlatMapIterator \/ FlatMapNext

InitIt == ItInit /\ heap = <<>> /\ RCIdle /\ DedupIdle /\ SMIdle /\ SPIdle /\ ISIdle /\ APIdle /\ CBIdle /\ ARIdle /\ SEIdle /\ SFIdle /\ MirrorIdle

SpecIt == InitIt /\ [][ItNext]_vars

ISNext == InsertSorted

InitIS == ISInit /\ RCIdle /\ DedupIdle /\ SMIdle /\ SPIdle /\ ItIdle /\ APIdle /\ CBIdle /\ ARIdle /\ SEIdle /\ SFIdle /\ MirrorIdle

SpecIS == InitIS /\ [][ISNext]_vars

APNext == AppendCall

InitAP == APInit /\ RCIdle /\ DedupIdle /\ SMIdle /\ SPIdle /\ ItIdle /\ ISIdle /\ CBIdle /\ ARIdle /\ SEIdle /\ SFIdle /\ MirrorIdle

SpecAP == InitAP /\ [][APNext]_vars

CBNext == Combine

InitCB == CBInit /\ RCIdle /\ DedupIdle /\ SMIdle /\ SPIdle /\ ItIdle /\ ISIdle /\ APIdle /\ ARIdle /\ SEIdle /\ SFIdle /\ MirrorIdle

SpecCB == InitCB /\ [][CBNext]_vars

ARNext == AddRange

InitAR == ARInit /\ RCIdle /\ DedupIdle /\ SMIdle /\ SPIdle /\ ItIdle /\ ISIdle /\ APIdle /\ CBIdle /\ SEIdle /\ SFIdle /\ MirrorIdle

SpecAR == InitAR /\ [][ARNext]_vars

SENext == SingleIterator \/ SingleNext \/ EmptyNext

InitSE == SEInit /\ heap = <<>> /\ RCIdle /\ DedupIdle /\ SMIdle /\ SPIdle /\ ItIdle /\ ISIdle /\ APIdle /\ CBIdle /\ ARIdle /\ SFIdle /\ MirrorIdle

SpecSE == InitSE /\ [][SENext]_vars

SFNext == SameFlatMap

InitSF == SFInit /\ RCIdle /\ DedupIdle /\ SMIdle /\ SPIdle /\ ItIdle /\ ISIdle /\ APIdle /\ CBIdle /\ ARIdle /\ SEIdle /\ MirrorIdle

SpecSF == InitSF /\ [][SFNext]_vars

MirrorNext == MirrorExitNoGit \/ MirrorStart \/ MirrorTimeout

InitMirror == MirrorInit /\ heap = <<>> /\ RCIdle /\ DedupIdle /\ SMIdle /\ SPIdle /\ ItIdle /\ ISIdle /\ APIdle /\ CBIdle /\ ARIdle /\ SEIdle /\ SFIdle

\* The event loop runs a timer's callback once it is due, and the script's
\* statements run: every enabled step is eventually taken.
SpecMirror == InitMirror /\ [][MirrorNext]_vars /\ WF_vars(MirrorNext)

====
